---- MODULE Spec2Model ----
(***************************************************************************)
(* Model of the CloudFront-log shipping pipeline of                        *)
(* nugored/cf-logs-loki-uploader (package parser): the bounded queue, the   *)
(* Lister (Parser.Scan), the worker pool (Parser.Worker), the per-file      *)
(* decoder and shipper (Parser.parseFile, parseDataLine) and shutdown       *)
(* (Parser.Stop).                                                           *)
(*                                                                         *)
(* Strings are sequences of one-character strings, so that                  *)
(* strings.HasPrefix, strings.Fields and strings.Split are computed and     *)
(* not assumed.  The wall-clock timestamp handed to Batch.Add is left out:  *)
(* no branch of the code reads it.                                          *)
(***************************************************************************)
EXTENDS Integers, Sequences, FiniteSets, TLC

\* ------------------------------------------------------------------ bounds
\* opts.Workers: number of Worker goroutines and factor of the queue capacity
Workers == 2
\* number of Scan invocations the caller makes
MaxScans == 2
\* number of Stop calls the caller makes
NumStoppers == 2

\* ------------------------------------------------------- program constants
\* make(chan *string, 10*opts.Workers)
QueueFactor == 10
\* maxKeys := int32(100)
MaxKeys == 100

\* ---------------------------------------------------------------- strings
Range(s) == {s[i] : i \in 1..Len(s)}

\* byte order of the characters that occur in the modelled keys and lines
Alphabet == <<"\t", " ", "#", "/", "1", "2", ":", "F", "V", "a", "b", "d", "e", "i", "l", "s", "x", "y", "z">>

Ord(c) == CHOOSE i \in 1..Len(Alphabet) : Alphabet[i] = c

\* Go's string comparison a < b (lexicographic on bytes)
RECURSIVE StrLess(_, _)
StrLess(a, b) ==
    IF Len(b) = 0 THEN FALSE
    ELSE IF Len(a) = 0 THEN TRUE
    ELSE IF Ord(Head(a)) # Ord(Head(b)) THEN Ord(Head(a)) < Ord(Head(b))
    ELSE StrLess(Tail(a), Tail(b))

\* strings.HasPrefix
HasPrefix(s, prefix) ==
    Len(s) >= Len(prefix) /\ SubSeq(s, 1, Len(prefix)) = prefix

\* unicode.IsSpace, for the characters of the alphabet
IsSpace(c) == c \in {" ", "\t"}

\* strings.Fields: the maximal runs of non-space characters, in order
RECURSIVE FieldsFrom(_, _, _, _)
FieldsFrom(s, i, cur, acc) ==
    IF i > Len(s) THEN (IF Len(cur) > 0 THEN Append(acc, cur) ELSE acc)
    ELSE IF IsSpace(s[i])
         THEN FieldsFrom(s, i + 1, <<>>, IF Len(cur) > 0 THEN Append(acc, cur) ELSE acc)
         ELSE FieldsFrom(s, i + 1, Append(cur, s[i]), acc)

Fields(s) == FieldsFrom(s, 1, <<>>, <<>>)

\* strings.Split(s, sep) for a one-character separator: n separators give
\* n+1 segments, empty segments included
RECURSIVE SplitFrom(_, _, _, _, _)
SplitFrom(s, sep, i, cur, acc) ==
    IF i > Len(s) THEN Append(acc, cur)
    ELSE IF s[i] = sep
         THEN SplitFrom(s, sep, i + 1, <<>>, Append(acc, cur))
         ELSE SplitFrom(s, sep, i + 1, Append(cur, s[i]), acc)

Split(s, sep) == SplitFrom(s, sep, 1, <<>>, <<>>)

\* "#Fields:" and "#"
FieldsDirective == <<"#", "F", "i", "e", "l", "d", "s", ":">>

CommentMarker == <<"#">>

\* ------------------------------------------------------------ the decoder
\* parseDataLine that stores the first token under every name
parseDataLineFirstToken(line, headerFields) ==
    LET fields == Fields(line) IN
    IF Len(fields) # Len(headerFields)
    THEN [err |-> TRUE, entry |-> <<>>]
    ELSE [err |-> FALSE, entry |-> [name \in Range(headerFields) |-> fields[1]]]

\* parseDataLine: the record maps every header name to the token at the
\* position of that name; a name that occurs twice keeps the later token
\* (entry[name] = fields[i] is assigned in header order).
LastIndexOf(headerFields, name) ==
    CHOOSE i \in 1..Len(headerFields) :
        /\ headerFields[i] = name
        /\ \A j \in (i + 1)..Len(headerFields) : headerFields[j] # name

parseDataLine(line, headerFields) ==
    LET fields == Fields(line) IN
    IF Len(fields) # Len(headerFields)
    THEN [err |-> TRUE, entry |-> <<>>]
    ELSE [err |-> FALSE,
          entry |-> [name \in Range(headerFields) |->
                        fields[LastIndexOf(headerFields, name)]]]

\* json.Marshal of a map[string]string: one "key":"value" member per key of
\* the map, keys in sorted order.  The JSON text is represented by its
\* member list.
RECURSIVE SortedKeys(_)
SortedKeys(S) ==
    IF S = {} THEN <<>>
    ELSE LET m == CHOOSE k \in S : \A o \in S \ {k} : StrLess(k, o)
         IN  <<m>> \o SortedKeys(S \ {m})

MarshalJSON(entry) ==
    LET ks == SortedKeys(DOMAIN entry)
    IN  [i \in 1..Len(ks) |-> <<ks[i], entry[ks[i]]>>]

\* ------------------------------------------------------------------ files
\* An object's decompressed text is the sequence of its lines.
HeaderAB == FieldsDirective \o <<" ", "a", " ", "b">>

CommentLine == <<"#", "V">>

\* comment, header, two matching data lines
FileGood == <<CommentLine, HeaderAB, <<"1", " ", "2">>, <<"2", "2", " ", "1", "1">>>>

\* the second data line has one token instead of two
FileMismatch == <<HeaderAB, <<"1", " ", "2">>, <<"1">>, <<"2", " ", "1">>>>

\* no header directive at all
FileNoHeader == <<CommentLine, <<"1", " ", "2">>>>

\* a header directive that names no field
FileEmptyHeader == <<FieldsDirective, <<"1", " ", "2">>>>

\* a data line placed before the header directive
FileEarlyData == <<<<"1", " ", "2">>, HeaderAB, <<"2", " ", "1">>>>

\* the header names the same field twice
FileDupField == <<FieldsDirective \o <<" ", "a", " ", "a">>, <<"1", " ", "2">>>>

\* a second header directive after the first data line
FileTwoHeaders == <<HeaderAB, <<"1", " ", "2">>, FieldsDirective \o <<" ", "b">>, <<"2">>>>

\* no space between the directive and the first field name
FileGluedHeader == <<FieldsDirective \o <<"a", " ", "b">>, <<"1">>>>

\* an empty line among the data lines
FileBlankLine == <<HeaderAB, <<>>, <<"1", " ", "2">>>>

\* an object with no line
FileEmpty == <<>>

\* data lines whose tokens are separated by a tab, and by two spaces
FileTabs == <<HeaderAB, <<"1", "\t", "2">>, <<"2", " ", " ", "1">>>>

\* a header directive that names no field, followed by an empty line
FileEmptyHeaderBlank == <<FieldsDirective, <<>>>>

Catalogue ==
    {FileGood, FileMismatch, FileNoHeader, FileEmptyHeader, FileEarlyData,
     FileDupField, FileTwoHeaders, FileGluedHeader, FileBlankLine, FileEmpty,
     FileTabs, FileEmptyHeaderBlank}

\* ------------------------------------------------------------------- keys
KeyA == <<"a", "/", "x", "/", "1">>

KeyB == <<"b", "/", "y", "/", "2">>

\* a key with a single segment
KeyZ == <<"z">>

\* a key with two segments, the first of them empty
KeyS == <<"/", "y">>

\* the i-th of a family of keys in ascending order: "f/aa", "f/ab", ...,
\* "f/ba", ...
FillLetters == <<"a", "b", "d", "e", "i", "l">>

FillKey(i) ==
    <<"f", "/", FillLetters[((i - 1) \div Len(FillLetters)) + 1],
                FillLetters[((i - 1) % Len(FillLetters)) + 1]>>

\* as many of them as, with KeyB, give every Worker an item, fill the queue
\* and leave one more to send
NumFillKeys == Workers + QueueFactor * Workers

FillKeys == [i \in 1..NumFillKeys |-> FillKey(i)]

\* the keys in the order the listing returns them (ascending)
KeyOrder == <<KeyS, KeyA, KeyB>> \o FillKeys \o <<KeyZ>>

ObjectKeys == Range(KeyOrder)

\* ------------------------------------------------------------------ state
VARIABLES
    queue,      \* s.queue: the buffered items, oldest first
    closed,     \* s.queue has been closed
    closes,     \* number of close(s.queue) executed
    stop,       \* s.stop
    racy,       \* s.stop was written while the current Scan invocation runs
    panicked,   \* "none", or the run-time panic that ended the process
    bucket,     \* keys present in the bucket
    content,    \* key -> lines of the object
    scpc,       \* Scan: "idle", "loop" (line 74/75), "send" (line 78)
    listing,    \* Scan: output.Contents, each element <<>> (nil Key) or <<key>>
    idx,        \* Scan: position in output.Contents
    num,        \* Scan: num
    tried,      \* Scan: keys this invocation has reached the send with
    sent,       \* Scan: keys this invocation has placed in the queue
    scans,      \* number of Scan invocations made
    listNil,    \* the store's pages start with an object that has no Key
    wpc,        \* Worker: "recv", "open", "scan", "delete", "done", "failed"
    fn,         \* Worker: the dequeued key, <<>> before the first
    dec,        \* Worker: state of parseFile for fn
    delReq,     \* Worker: the delete requests it has issued, in order
    stpc,       \* Stop call: "idle", "set" (line 57), "close" (line 58), "done"
    opts,       \* s.opts: ClusterName and Labels
    reported,   \* Metrics: the value of the last response, -1 before the first
    enq,        \* history: number of sends on s.queue that have completed
    deq         \* history: number of receives from s.queue that have completed

vars == <<queue, closed, closes, stop, racy, panicked, bucket, content,
          scpc, listing, idx, num, tried, sent, scans, listNil, wpc, fn, dec, delReq,
          stpc, opts, reported, enq, deq>>

WorkerIds == 1..Workers

Stoppers == 1..NumStoppers

\* cap(s.queue)
Capacity == QueueFactor * Workers

\* parseFile's locals before its first statement
NoDec ==
    [hdr |-> <<>>, added |-> <<>>, line |-> 1, err |-> "nil", batches |-> 0,
     labels |-> <<>>, flushed |-> FALSE, notfound |-> FALSE, readErr |-> FALSE]

\* ------------------------------------------------------------------- sink
\* loki.NewBatch: a new, empty batch that carries the label set
NewBatch(d, labels) ==
    [d EXCEPT !.batches = @ + 1, !.labels = labels, !.added = <<>>, !.flushed = FALSE]

\* Batch.Add: the line joins the batch, or the call returns an error
BatchAdd(d, jsonString, ok) ==
    IF ok THEN [d EXCEPT !.added = Append(@, jsonString)]
    ELSE [d EXCEPT !.err = "add"]

\* Batch.Flush: the batch is shipped, or the call returns an error
BatchFlush(d, ok) ==
    IF ok THEN [d EXCEPT !.flushed = TRUE]
    ELSE [d EXCEPT !.err = "flush"]

\* ------------------------------------------------------ parseFile, labels
\* the names of the labels parseFile derives from the key and the cluster
DynamicLabels == {"namespace", "cloudfront", "cluster", "index"}

\* the label set with the configured labels written first and the derived
\* labels written over them
LabelsDynamicLast(parts) ==
    [namespace |-> parts[1],
     cloudfront |-> parts[2],
     cluster |-> opts.ClusterName,
     index |-> opts.ClusterName \o <<"-">> \o parts[1]] @@ opts.Labels

\* parseFile, lines 112-125: the derived labels, then every configured label
\* written over them (f @@ g keeps f where both are defined)
Labels(parts) ==
    opts.Labels @@
    [namespace |-> parts[1],
     cloudfront |-> parts[2],
     cluster |-> opts.ClusterName,
     index |-> opts.ClusterName \o <<"-">> \o parts[1]]

\* ------------------------------------------------------- parseFile, a line
\* scanner loop that skips a line parseDataLine rejects
ScanLineSkipBad(d, line, addOK) ==
    IF HasPrefix(line, FieldsDirective)
    THEN [d EXCEPT !.hdr = Tail(Fields(line))]
    ELSE IF HasPrefix(line, CommentMarker) \/ Len(d.hdr) = 0
    THEN d
    ELSE LET r == parseDataLine(line, d.hdr) IN
         IF r.err THEN d
         ELSE BatchAdd(d, MarshalJSON(r.entry), addOK)

\* scanner loop that captures the header fields once per file: a directive
\* seen after the fields are set is skipped like any other comment
ScanLineHeaderOnce(d, line, addOK) ==
    IF HasPrefix(line, FieldsDirective) /\ Len(d.hdr) = 0
    THEN [d EXCEPT !.hdr = Tail(Fields(line))]
    ELSE IF HasPrefix(line, CommentMarker) \/ Len(d.hdr) = 0
    THEN d
    ELSE LET r == parseDataLine(line, d.hdr) IN
         IF r.err THEN [d EXCEPT !.err = "parse"]
         ELSE BatchAdd(d, MarshalJSON(r.entry), addOK)

\* scanner loop that skips comments only: a line read while no header has
\* been captured goes to parseDataLine
ScanLineNoHeaderTest(d, line, addOK) ==
    IF HasPrefix(line, FieldsDirective)
    THEN [d EXCEPT !.hdr = Tail(Fields(line))]
    ELSE IF HasPrefix(line, CommentMarker)
    THEN d
    ELSE LET r == parseDataLine(line, d.hdr) IN
         IF r.err THEN [d EXCEPT !.err = "parse"]
         ELSE BatchAdd(d, MarshalJSON(r.entry), addOK)

\* the body of the scanner loop for one line (lines 154-188)
ScanLine(d, line, addOK) ==
    IF HasPrefix(line, FieldsDirective)
    THEN [d EXCEPT !.hdr = Tail(Fields(line))]
    ELSE IF HasPrefix(line, CommentMarker) \/ Len(d.hdr) = 0
    THEN d
    ELSE LET r == parseDataLine(line, d.hdr) IN
         IF r.err THEN [d EXCEPT !.err = "parse"]
         ELSE BatchAdd(d, MarshalJSON(r.entry), addOK)

\* parseFile returns: of its state the error and what the sink has received
\* (and whether the body could be read) remain, the scanner position and the
\* header fields are gone
Return(d) == [d EXCEPT !.hdr = <<>>, !.line = 1]

\* ------------------------------------------------------------------- init
\* NewParser, and the bucket the pipeline is started on
BucketContent ==
    (KeyA :> <<HeaderAB, <<"1", " ", "2">>>>) @@ (KeyB :> <<HeaderAB, <<"1">>>>)
        @@ (KeyZ :> FileGood) @@ (KeyS :> <<HeaderAB>>)

\* the configuration the pipeline is started with
DefaultOptions == [ClusterName |-> <<"c">>, Labels |-> [env |-> <<"p">>]]

InitParser ==
    /\ queue = <<>>
    /\ closed = FALSE
    /\ closes = 0
    /\ stop = FALSE
    /\ racy = FALSE
    /\ panicked = "none"
    /\ scpc = "idle"
    /\ listing = <<>>
    /\ idx = 1
    /\ num = 0
    /\ tried = <<>>
    /\ sent = <<>>
    /\ scans = 0
    /\ wpc = [w \in WorkerIds |-> "recv"]
    /\ fn = [w \in WorkerIds |-> <<>>]
    /\ dec = [w \in WorkerIds |-> NoDec]
    /\ delReq = [w \in WorkerIds |-> <<>>]
    /\ stpc = [t \in Stoppers |-> "idle"]
    /\ reported = -1
    /\ enq = 0
    /\ deq = 0

Init ==
    /\ InitParser
    /\ bucket = {KeyA, KeyB}
    /\ listNil = FALSE
    /\ content = BucketContent
    /\ opts = DefaultOptions

\* a bucket that holds one object, with any of the catalogued texts
InitFile ==
    /\ InitParser
    /\ bucket = {KeyA}
    /\ listNil \in BOOLEAN
    /\ \E f \in Catalogue : content = (KeyA :> f) @@ BucketContent
    /\ opts = DefaultOptions

\* configurations: a cluster name, possibly empty, and static labels that
\* are absent, new, or named like a derived label
OptionsSet ==
    {[ClusterName |-> c, Labels |-> l] :
        c \in {<<"c">>, <<>>},
        l \in {<<>>,
               [env |-> <<"p">>],
               [namespace |-> <<"n">>, env |-> <<"p">>],
               [index |-> <<"i">>, cluster |-> <<"d">>],
               [cloudfront |-> <<>>]}}

\* a bucket of two objects, one under a key whose first segment is empty,
\* and any of the configurations
InitLabels ==
    /\ InitParser
    /\ bucket = {KeyS, KeyA}
    /\ listNil = FALSE
    /\ content = BucketContent
    /\ opts \in OptionsSet

\* a bucket of one object that can be shipped and, after it in the listing,
\* more objects with a data line that does not match the header than the
\* Workers and the queue hold together
InitFill ==
    /\ InitParser
    /\ bucket = {KeyA, KeyB} \cup Range(FillKeys)
    /\ listNil = FALSE
    /\ content = [k \in Range(FillKeys) |-> <<HeaderAB, <<"1">>>>] @@ BucketContent
    /\ opts = DefaultOptions

\* a bucket that holds an object under a key with a single segment
InitKeys ==
    /\ InitParser
    /\ bucket = {KeyA, KeyZ}
    /\ listNil \in BOOLEAN
    /\ content = BucketContent
    /\ opts = DefaultOptions

\* an unrecovered panic in any goroutine ends the process
Running == panicked = "none"

\* ------------------------------------------------------------------- Stop
\* Stop without the test of line 54
StopCallUnguarded(t) ==
    /\ Running
    /\ stpc[t] = "idle"
    /\ \A u \in Stoppers : u < t => stpc[u] = "done"
    /\ stpc' = [stpc EXCEPT ![t] = "set"]
    /\ UNCHANGED <<queue, closed, closes, stop, racy, panicked, bucket, content,
                   scpc, listing, idx, num, tried, sent, scans, listNil, wpc, fn, dec, delReq>>
    /\ UNCHANGED <<opts, reported, enq, deq>>

\* Stop, line 54: the t-th call starts when the calls before it have
\* returned
StopCall(t) ==
    /\ Running
    /\ stpc[t] = "idle"
    /\ \A u \in Stoppers : u < t => stpc[u] = "done"
    /\ stpc' = [stpc EXCEPT ![t] = IF stop THEN "done" ELSE "set"]
    /\ UNCHANGED <<queue, closed, closes, stop, racy, panicked, bucket, content,
                   scpc, listing, idx, num, tried, sent, scans, listNil, wpc, fn, dec, delReq>>
    /\ UNCHANGED <<opts, reported, enq, deq>>

\* Stop, line 54, called from a call site of its own: the call starts at
\* any time, whatever the other calls are doing
StopCallConcurrent(t) ==
    /\ Running
    /\ stpc[t] = "idle"
    /\ stpc' = [stpc EXCEPT ![t] = IF stop THEN "done" ELSE "set"]
    /\ UNCHANGED <<queue, closed, closes, stop, racy, panicked, bucket, content,
                   scpc, listing, idx, num, tried, sent, scans, listNil, wpc, fn, dec, delReq>>
    /\ UNCHANGED <<opts, reported, enq, deq>>

\* Stop, line 57
StopSet(t) ==
    /\ Running
    /\ stpc[t] = "set"
    /\ stop' = TRUE
    /\ racy' = (racy \/ scpc # "idle")
    /\ stpc' = [stpc EXCEPT ![t] = "close"]
    /\ UNCHANGED <<queue, closed, closes, panicked, bucket, content,
                   scpc, listing, idx, num, tried, sent, scans, listNil, wpc, fn, dec, delReq>>
    /\ UNCHANGED <<opts, reported, enq, deq>>

\* Stop, line 58: closing a closed channel panics
StopClose(t) ==
    /\ Running
    /\ stpc[t] = "close"
    /\ closes' = closes + 1
    /\ IF closed
       THEN /\ panicked' = "close of closed channel"
            /\ UNCHANGED <<closed, stpc>>
       ELSE /\ closed' = TRUE
            /\ stpc' = [stpc EXCEPT ![t] = "done"]
            /\ UNCHANGED panicked
    /\ UNCHANGED <<queue, stop, racy, bucket, content,
                   scpc, listing, idx, num, tried, sent, scans, listNil, wpc, fn, dec, delReq>>
    /\ UNCHANGED <<opts, reported, enq, deq>>

\* ------------------------------------------------------------------- Scan
\* ListObjectsV2: at most MaxKeys objects of the bucket, in key order
Page(b) ==
    LET all == SelectSeq(KeyOrder, LAMBDA k : k \in b)
    IN  SubSeq(all, 1, IF Len(all) < MaxKeys THEN Len(all) ELSE MaxKeys)

\* Scan, lines 62-73: the list call fails, or returns a page whose objects
\* carry a key; the SDK type also allows an object without a key
ScanCall ==
    /\ Running
    /\ scpc = "idle"
    /\ scans < MaxScans
    /\ scans' = scans + 1
    /\ \/ UNCHANGED <<scpc, listing, idx, num, tried, sent, racy>>
       \/ /\ listing' = (IF listNil THEN <<<<>>>> ELSE <<>>)
                           \o [i \in 1..Len(Page(bucket)) |-> <<Page(bucket)[i]>>]
          /\ idx' = 1
          /\ num' = 0
          /\ tried' = <<>>
          /\ sent' = <<>>
          /\ racy' = FALSE
          /\ scpc' = "loop"
    /\ UNCHANGED <<queue, closed, closes, stop, panicked, bucket, content,
                   listNil, wpc, fn, dec, delReq, stpc>>
    /\ UNCHANGED <<opts, reported, enq, deq>>

\* what a read of s.stop in Scan can return: the flag is written by Stop
\* without synchronisation, so a write made during this invocation may or
\* may not be visible
StopSeenByScan == IF stop /\ racy THEN {TRUE, FALSE} ELSE {stop}

\* Scan, lines 74-77 and 81-84: next object or return
ScanLoop ==
    /\ Running
    /\ scpc = "loop"
    /\ IF idx > Len(listing)
       THEN /\ scpc' = "idle"
            /\ UNCHANGED <<idx, tried>>
       ELSE \E seen \in StopSeenByScan :
               IF listing[idx] = <<>> \/ seen
               THEN /\ idx' = idx + 1
                    /\ UNCHANGED <<scpc, tried>>
               ELSE /\ scpc' = "send"
                    /\ tried' = Append(tried, listing[idx][1])
                    /\ UNCHANGED idx
    /\ UNCHANGED <<queue, closed, closes, stop, racy, panicked, bucket, content,
                   listing, num, sent, scans, listNil, wpc, fn, dec, delReq, stpc>>
    /\ UNCHANGED <<opts, reported, enq, deq>>

\* Scan, lines 78-79: the send panics on a closed channel, completes when
\* the buffer has room and blocks otherwise
ScanSend ==
    /\ Running
    /\ scpc = "send"
    /\ IF closed
       THEN /\ panicked' = "send on closed channel"
            /\ UNCHANGED <<queue, num, sent, idx, scpc, enq>>
       ELSE /\ Len(queue) < Capacity
            /\ queue' = Append(queue, listing[idx][1])
            /\ num' = num + 1
            /\ enq' = enq + 1
            /\ sent' = Append(sent, listing[idx][1])
            /\ idx' = idx + 1
            /\ scpc' = "loop"
            /\ UNCHANGED panicked
    /\ UNCHANGED <<closed, closes, stop, racy, bucket, content,
                   listing, tried, scans, listNil, wpc, fn, dec, delReq, stpc>>
    /\ UNCHANGED <<opts, reported, deq>>

\* ----------------------------------------------------------------- Worker
\* Worker whose receive does not wait: an empty queue ends the loop
WorkerRecvNoWait(w) ==
    /\ Running
    /\ wpc[w] = "recv"
    /\ IF queue # <<>>
       THEN /\ fn' = [fn EXCEPT ![w] = Head(queue)]
            /\ queue' = Tail(queue)
            /\ deq' = deq + 1
            /\ dec' = [dec EXCEPT ![w] = NoDec]
            /\ wpc' = [wpc EXCEPT ![w] = "open"]
       ELSE /\ wpc' = [wpc EXCEPT ![w] = "done"]
            /\ UNCHANGED <<fn, queue, dec, deq>>
    /\ UNCHANGED <<closed, closes, stop, racy, panicked, bucket, content,
                   scpc, listing, idx, num, tried, sent, scans, listNil, delReq, stpc>>
    /\ UNCHANGED <<opts, reported, enq>>

\* Worker whose receive takes the newest item of the queue
WorkerRecvNewest(w) ==
    /\ Running
    /\ wpc[w] = "recv"
    /\ IF queue # <<>>
       THEN /\ fn' = [fn EXCEPT ![w] = queue[Len(queue)]]
            /\ queue' = SubSeq(queue, 1, Len(queue) - 1)
            /\ deq' = deq + 1
            /\ dec' = [dec EXCEPT ![w] = NoDec]
            /\ wpc' = [wpc EXCEPT ![w] = "open"]
       ELSE /\ closed
            /\ wpc' = [wpc EXCEPT ![w] = "done"]
            /\ UNCHANGED <<fn, queue, dec, deq>>
    /\ UNCHANGED <<closed, closes, stop, racy, panicked, bucket, content,
                   scpc, listing, idx, num, tried, sent, scans, listNil, delReq, stpc>>
    /\ UNCHANGED <<opts, reported, enq>>

\* Worker, line 90: receive from the queue; a closed and drained queue ends
\* the loop (line 105), an open and empty one blocks
WorkerRecv(w) ==
    /\ Running
    /\ wpc[w] = "recv"
    /\ IF queue # <<>>
       THEN /\ fn' = [fn EXCEPT ![w] = Head(queue)]
            /\ queue' = Tail(queue)
            /\ deq' = deq + 1
            /\ dec' = [dec EXCEPT ![w] = NoDec]
            /\ wpc' = [wpc EXCEPT ![w] = "open"]
       ELSE /\ closed
            /\ wpc' = [wpc EXCEPT ![w] = "done"]
            /\ UNCHANGED <<fn, queue, dec, deq>>
    /\ UNCHANGED <<closed, closes, stop, racy, panicked, bucket, content,
                   scpc, listing, idx, num, tried, sent, scans, listNil, delReq, stpc>>
    /\ UNCHANGED <<opts, reported, enq>>

\* GetObject: a missing key is reported as NoSuchKey; any call can fail
GetOutcomes(k) == IF k \in bucket THEN {"ok", "error"} ELSE {"NoSuchKey", "error"}

\* parseFile that logs the missing key and goes on to return the error
OpenFileNotFoundFails(labels, get, gzipOK) ==
    LET b == NewBatch(NoDec, labels) IN
    CASE get = "NoSuchKey" -> [b EXCEPT !.notfound = TRUE, !.err = "get"]
      [] get = "error" -> [b EXCEPT !.err = "get"]
      [] get = "ok" /\ ~gzipOK -> [b EXCEPT !.err = "gzip"]
      [] get = "ok" /\ gzipOK -> b

\* parseFile, lines 127-146: a new batch, then the fetch and the gzip reader.
\* A NoSuchKey error returns nil, any other error is returned.
OpenFile(labels, get, gzipOK) ==
    LET b == NewBatch(NoDec, labels) IN
    CASE get = "NoSuchKey" -> [b EXCEPT !.notfound = TRUE]
      [] get = "error" -> [b EXCEPT !.err = "get"]
      [] get = "ok" /\ ~gzipOK -> [b EXCEPT !.err = "gzip"]
      [] get = "ok" /\ gzipOK -> b

\* Worker that goes on to the delete request whatever parseFile returned
AfterParseIgnoreErr(d) == "delete"

\* Worker that logs the error of parseFile and goes on to the next item
AfterParseContinue(d) == IF d.err = "nil" THEN "delete" ELSE "recv"

\* Worker, lines 92-97: an error of parseFile ends the Worker, nil leads to
\* the delete request
AfterParse(d) == IF d.err = "nil" THEN "delete" ELSE "failed"

\* parseFile, lines 109-151: labels from the key's first two segments, the
\* batch, the fetch, the gzip reader
WorkerOpen(w) ==
    /\ Running
    /\ wpc[w] = "open"
    /\ LET parts == Split(fn[w], "/") IN
       IF Len(parts) < 2
       THEN /\ panicked' = "index out of range"
            /\ UNCHANGED <<wpc, dec>>
       ELSE /\ UNCHANGED panicked
            /\ \E get \in GetOutcomes(fn[w]), gzipOK \in BOOLEAN :
                 LET d == OpenFile(Labels(parts), get, gzipOK) IN
                 IF d.err = "nil" /\ ~d.notfound
                 THEN /\ dec' = [dec EXCEPT ![w] = d]
                      /\ wpc' = [wpc EXCEPT ![w] = "scan"]
                 ELSE /\ dec' = [dec EXCEPT ![w] = Return(d)]
                      /\ wpc' = [wpc EXCEPT ![w] = AfterParse(d)]
    /\ UNCHANGED <<queue, closed, closes, stop, racy, bucket, content,
                   scpc, listing, idx, num, tried, sent, scans, listNil, fn, delReq, stpc>>
    /\ UNCHANGED <<opts, reported, enq, deq>>

\* parseFile, lines 153-190: the scanner delivers the next line
WorkerLine(w) ==
    /\ Running
    /\ wpc[w] = "scan"
    /\ ~dec[w].readErr
    /\ dec[w].line <= Len(content[fn[w]])
    /\ \E addOK \in BOOLEAN :
         LET d == ScanLine([dec[w] EXCEPT !.line = @ + 1],
                           content[fn[w]][dec[w].line], addOK) IN
         /\ dec' = [dec EXCEPT ![w] = IF d.err = "nil" THEN d ELSE Return(d)]
         /\ wpc' = [wpc EXCEPT ![w] = IF d.err = "nil" THEN "scan" ELSE AfterParse(d)]
    /\ UNCHANGED <<queue, closed, closes, stop, racy, panicked, bucket, content,
                   scpc, listing, idx, num, tried, sent, scans, listNil, fn, delReq, stpc>>
    /\ UNCHANGED <<opts, reported, enq, deq>>

\* parseFile, lines 153-194: the read of the body fails (or the next line
\* exceeds the scanner's buffer).  The scanner delivers what it holds of the
\* next line (cut characters, a proper prefix) as a last line when that is
\* not empty, and then ends with the error.
WorkerReadError(w) ==
    /\ Running
    /\ wpc[w] = "scan"
    /\ ~dec[w].readErr
    /\ LET lines == content[fn[w]]
           i == dec[w].line
           maxCut == IF i <= Len(lines) /\ Len(lines[i]) > 0
                     THEN Len(lines[i]) - 1 ELSE 0
       IN  /\ i <= Len(lines) + 1
           /\ \E cut \in 0..maxCut, addOK \in BOOLEAN :
                LET d == IF cut = 0
                         THEN [dec[w] EXCEPT !.err = "scan"]
                         ELSE ScanLine([dec[w] EXCEPT !.readErr = TRUE],
                                       SubSeq(lines[i], 1, cut), addOK) IN
                /\ dec' = [dec EXCEPT ![w] = IF d.err = "nil" THEN d ELSE Return(d)]
                /\ wpc' = [wpc EXCEPT ![w] = IF d.err = "nil" THEN "scan" ELSE AfterParse(d)]
    /\ UNCHANGED <<queue, closed, closes, stop, racy, panicked, bucket, content,
                   scpc, listing, idx, num, tried, sent, scans, listNil, fn, delReq, stpc>>
    /\ UNCHANGED <<opts, reported, enq, deq>>

\* parseFile, lines 192-202: the scanner has ended; its error is returned,
\* otherwise the batch is flushed
WorkerFlush(w) ==
    /\ Running
    /\ wpc[w] = "scan"
    /\ dec[w].readErr \/ dec[w].line > Len(content[fn[w]])
    /\ \E flushOK \in BOOLEAN :
         LET d == IF dec[w].readErr
                  THEN [dec[w] EXCEPT !.err = "scan"]
                  ELSE BatchFlush(dec[w], flushOK) IN
         /\ dec' = [dec EXCEPT ![w] = Return(d)]
         /\ wpc' = [wpc EXCEPT ![w] = AfterParse(d)]
    /\ UNCHANGED <<queue, closed, closes, stop, racy, panicked, bucket, content,
                   scpc, listing, idx, num, tried, sent, scans, listNil, fn, delReq, stpc>>
    /\ UNCHANGED <<opts, reported, enq, deq>>

\* Worker, lines 97-102: the delete request; its failure is only logged.
\* The iteration ends here: fn and parseFile's locals are dead until the
\* next receive assigns them.
WorkerDelete(w) ==
    /\ Running
    /\ wpc[w] = "delete"
    /\ delReq' = [delReq EXCEPT ![w] = Append(@, fn[w])]
    /\ \E deleteOK \in BOOLEAN :
         bucket' = IF deleteOK THEN bucket \ {fn[w]} ELSE bucket
    /\ wpc' = [wpc EXCEPT ![w] = "recv"]
    /\ fn' = [fn EXCEPT ![w] = <<>>]
    /\ dec' = [dec EXCEPT ![w] = NoDec]
    /\ UNCHANGED <<queue, closed, closes, stop, racy, panicked, content,
                   scpc, listing, idx, num, tried, sent, scans, listNil, stpc>>
    /\ UNCHANGED <<opts, reported, enq, deq>>

\* ---------------------------------------------------------------- Metrics
\* a Metrics handler that reports the capacity of the queue
MetricsCap ==
    /\ Running
    /\ reported' = Capacity
    /\ UNCHANGED <<queue, closed, closes, stop, racy, panicked, bucket, content,
                   scpc, listing, idx, num, tried, sent, scans, listNil, wpc, fn, dec,
                   delReq, stpc, opts, enq, deq>>

\* Metrics, lines 207-210: one request is served; the response carries
\* len(s.queue)
Metrics ==
    /\ Running
    /\ reported' = Len(queue)
    /\ UNCHANGED <<queue, closed, closes, stop, racy, panicked, bucket, content,
                   scpc, listing, idx, num, tried, sent, scans, listNil, wpc, fn, dec,
                   delReq, stpc, opts, enq, deq>>

\* ------------------------------------------------------------------- spec
Next ==
    \/ \E t \in Stoppers : StopCall(t)
    \/ \E t \in Stoppers : StopSet(t)
    \/ \E t \in Stoppers : StopClose(t)
    \/ ScanCall
    \/ ScanLoop
    \/ ScanSend
    \/ \E w \in WorkerIds : WorkerRecv(w)
    \/ \E w \in WorkerIds : WorkerOpen(w)
    \/ \E w \in WorkerIds : WorkerLine(w)
    \/ \E w \in WorkerIds : WorkerReadError(w)
    \/ \E w \in WorkerIds : WorkerFlush(w)
    \/ \E w \in WorkerIds : WorkerDelete(w)

Spec == Init /\ [][Next]_vars

\* one Worker decoding the objects that Scan finds, no shutdown
FileNext ==
    \/ ScanCall
    \/ ScanLoop
    \/ ScanSend
    \/ WorkerRecv(1)
    \/ WorkerOpen(1)
    \/ WorkerLine(1)
    \/ WorkerReadError(1)
    \/ WorkerFlush(1)
    \/ WorkerDelete(1)

FileSpec == InitFile /\ [][FileNext]_vars

\* one Worker and the label sets it builds, under every configuration
LabelSpec == InitLabels /\ [][FileNext]_vars

\* the pipeline with Stop called from concurrent call sites
ConcNext ==
    \/ \E t \in Stoppers : StopCallConcurrent(t)
    \/ \E t \in Stoppers : StopSet(t)
    \/ \E t \in Stoppers : StopClose(t)
    \/ ScanCall
    \/ ScanLoop
    \/ ScanSend
    \/ \E w \in WorkerIds : WorkerRecv(w)
    \/ \E w \in WorkerIds : WorkerOpen(w)
    \/ \E w \in WorkerIds : WorkerLine(w)
    \/ \E w \in WorkerIds : WorkerReadError(w)
    \/ \E w \in WorkerIds : WorkerFlush(w)
    \/ \E w \in WorkerIds : WorkerDelete(w)

ConcSpec == Init /\ [][ConcNext]_vars

\* the pipeline without a shutdown
FillNext ==
    \/ ScanCall
    \/ ScanLoop
    \/ ScanSend
    \/ \E w \in WorkerIds : WorkerRecv(w)
    \/ \E w \in WorkerIds : WorkerOpen(w)
    \/ \E w \in WorkerIds : WorkerLine(w)
    \/ \E w \in WorkerIds : WorkerReadError(w)
    \/ \E w \in WorkerIds : WorkerFlush(w)
    \/ \E w \in WorkerIds : WorkerDelete(w)

FillSpec == InitFill /\ [][FillNext]_vars

\* one Worker and the keys Scan hands it, a single-segment key among them
KeySpec == InitKeys /\ [][FileNext]_vars

\* the pipeline with its metrics endpoint being polled
MetricsNext ==
    \/ Next
    \/ Metrics

MetricsSpec == Init /\ [][MetricsNext]_vars

\* The Go scheduler runs every goroutine that can take a step, and every
\* storage and sink call returns: each step of a started Stop, of a started
\* Scan and of a Worker is taken when it stays possible.  Starting a Scan or
\* a Stop, and a failing read of the body, are left to the environment.
Fairness ==
    /\ \A t \in Stoppers : WF_vars(StopSet(t)) /\ WF_vars(StopClose(t))
    /\ WF_vars(ScanLoop)
    /\ WF_vars(ScanSend)
    /\ \A w \in WorkerIds :
          /\ WF_vars(WorkerRecv(w))
          /\ WF_vars(WorkerOpen(w))
          /\ WF_vars(WorkerLine(w))
          /\ WF_vars(WorkerFlush(w))
          /\ WF_vars(WorkerDelete(w))

FairSpec == Spec /\ Fairness

\* the same for the pipeline without a shutdown
FillFairness ==
    /\ WF_vars(ScanLoop)
    /\ WF_vars(ScanSend)
    /\ \A w \in WorkerIds :
          /\ WF_vars(WorkerRecv(w))
          /\ WF_vars(WorkerOpen(w))
          /\ WF_vars(WorkerLine(w))
          /\ WF_vars(WorkerFlush(w))
          /\ WF_vars(WorkerDelete(w))

FairFillSpec == FillSpec /\ FillFairness

\* ----------------------------------------------------------------- claims
\* a Worker holds a key: from the receive to the delete request or the return
Processing(w) == wpc[w] \in {"open", "scan", "delete"}

\* C1: Stop calls made one after another leave the state one call leaves:
\* the stop flag is set, the queue has been closed exactly once, and a
\* second close is never executed.
C1_StopIdempotent ==
    /\ closes <= 1
    /\ panicked # "close of closed channel"
    /\ \A t \in Stoppers : stpc[t] = "done" => (stop /\ closed /\ closes = 1)

\* every Stop call has returned
C1_Witness == \A t \in Stoppers : stpc[t] = "done"

\* C2: a Worker issues a delete request only from the state in which
\* parseFile has returned nil for the key it holds (not-found, or batch
\* flushed), the request is for that key, and a Worker that got an error
\* stays returned and issues no delete request.
C2_DeleteOnlyAfterSuccess ==
    [][\A w \in WorkerIds :
        /\ delReq'[w] # delReq[w] =>
              /\ wpc[w] = "delete"
              /\ dec[w].err = "nil"
              /\ dec[w].notfound \/ dec[w].flushed
              /\ delReq'[w] = Append(delReq[w], fn[w])
        /\ wpc[w] = "failed" => (wpc'[w] = "failed" /\ delReq'[w] = delReq[w])
        /\ bucket' # bucket =>
              \E v \in WorkerIds :
                  /\ delReq'[v] # delReq[v]
                  /\ bucket' = bucket \ {fn[v]}]_vars

\* a delete request has been issued and a Worker has returned an error
C2_Witness ==
    \E w, v \in WorkerIds :
        /\ delReq[w] # <<>>
        /\ wpc[v] = "failed"
        /\ dec[v].err # "nil"

\* C3: the queue never holds more than its capacity, and every key Scan
\* reached the send with has been placed in the queue, or Scan is still
\* waiting at the send.
C3_BoundedQueueNoDrop ==
    /\ Len(queue) <= Capacity
    /\ (scpc # "send" \/ ~Running) => tried = sent

\* C4 as stated: a Worker that has returned, for whatever reason, leaves a
\* closed and empty queue.
C4_ReturnedOnlyWhenDrained ==
    \A w \in WorkerIds : wpc[w] \in {"done", "failed"} => (closed /\ queue = <<>>)

\* C4 amended: a Worker that has returned nil (the loop over the queue
\* ended) leaves a closed and empty queue.
C4_DoneOnlyWhenDrained ==
    \A w \in WorkerIds : wpc[w] = "done" => (closed /\ queue = <<>>)

\* a Worker has returned nil after it handled at least one object
C4_Witness == \E w \in WorkerIds : wpc[w] = "done" /\ delReq[w] # <<>>

\* C5: no send is executed on the queue once Stop has closed it.
C5_NoSendOnClosedQueue == panicked # "send on closed channel"

\* C6: two Workers never hold the same key at the same time.
C6_KeyMutualExclusion ==
    \A w, v \in WorkerIds :
        (w # v /\ Processing(w) /\ Processing(v)) => fn[w] # fn[v]

\* C7: once the stop flag is set, every Worker eventually returns.
C7_WorkersReturnAfterStop ==
    stop ~> (\A w \in WorkerIds : wpc[w] \in {"done", "failed"})

\* ------------------------------------------------ files, as the claims see them
\* a line that starts with the header directive
IsHeaderLine(l) == HasPrefix(l, FieldsDirective)

\* a line that does not start with '#'
IsDataLine(l) == ~HasPrefix(l, CommentMarker)

DataLines(lines) == {i \in 1..Len(lines) : IsDataLine(lines[i])}

\* the field names of the last header directive before line i, <<>> if none
HeaderBefore(lines, i) ==
    LET H == {j \in 1..(i - 1) : IsHeaderLine(lines[j])} IN
    IF H = {} THEN <<>>
    ELSE Tail(Fields(lines[CHOOSE j \in H : \A k \in H : k <= j]))

\* the n-th smallest element of a set of line numbers
Nth(I, n) == CHOOSE i \in I : Cardinality({j \in I : j <= i}) = n

\* a header directive precedes every data line, and every data line has as
\* many tokens as the header before it has names
WellFormed(lines) ==
    /\ \E j \in 1..Len(lines) : IsHeaderLine(lines[j])
    /\ \A i \in DataLines(lines) :
          /\ \E j \in 1..(i - 1) : IsHeaderLine(lines[j])
          /\ Len(Fields(lines[i])) = Len(HeaderBefore(lines, i))

\* every header directive names at least one field and no field twice
DistinctNonEmptyHeaders(lines) ==
    \A j \in 1..Len(lines) :
        IsHeaderLine(lines[j]) =>
            LET h == Tail(Fields(lines[j])) IN
            /\ Len(h) > 0
            /\ \A a, b \in 1..Len(h) : h[a] = h[b] => a = b

\* the first data line, under a header that names a field, whose token
\* count differs from the header's; 0 if there is none
Mismatches(lines) ==
    {i \in DataLines(lines) :
        /\ Len(HeaderBefore(lines, i)) > 0
        /\ Len(Fields(lines[i])) # Len(HeaderBefore(lines, i))}

FirstBad(lines) ==
    IF Mismatches(lines) = {} THEN 0
    ELSE CHOOSE i \in Mismatches(lines) : \A k \in Mismatches(lines) : i <= k

\* the JSON object has exactly the header's names as keys and gives the
\* i-th name the i-th token
RecordMatches(json, h, toks) ==
    /\ {json[m][1] : m \in 1..Len(json)} = Range(h)
    /\ \A j \in 1..Len(h) : \E m \in 1..Len(json) : json[m] = <<h[j], toks[j]>>

\* the same, with a name that occurs twice given the token of its last place
RecordMatchesLast(json, h, toks) ==
    /\ {json[m][1] : m \in 1..Len(json)} = Range(h)
    /\ \A j \in 1..Len(h) :
          (\A k \in (j + 1)..Len(h) : h[k] # h[j]) =>
              \E m \in 1..Len(json) : json[m] = <<h[j], toks[j]>>

\* C8: a file with a mismatching data line is never flushed by parseFile and
\* never deleted, no record of the mismatching line or of a later line joins
\* the batch, and when parseFile stops at that line the records of the data
\* lines before it are all in the batch.
C8_MismatchAborts ==
    \A w \in WorkerIds :
        (fn[w] # <<>> /\ FirstBad(content[fn[w]]) > 0) =>
            LET lines == content[fn[w]]
                before == {i \in DataLines(lines) :
                              i < FirstBad(lines) /\ Len(HeaderBefore(lines, i)) > 0}
            IN  /\ wpc[w] # "delete"
                /\ ~dec[w].flushed
                /\ fn[w] \in bucket
                /\ \A v \in WorkerIds : fn[w] \notin Range(delReq[v])
                /\ Len(dec[w].added) <= Cardinality(before)
                /\ (dec[w].err = "parse" /\ ~dec[w].readErr) =>
                      /\ wpc[w] = "failed"
                      /\ Len(dec[w].added) = Cardinality(before)
                      /\ \A n \in 1..Len(dec[w].added) :
                            RecordMatchesLast(dec[w].added[n],
                                              HeaderBefore(lines, Nth(before, n)),
                                              Fields(lines[Nth(before, n)]))

\* parseFile has stopped at the mismatching line with a record in the batch
C8_Witness ==
    \E w \in WorkerIds :
        /\ fn[w] # <<>>
        /\ FirstBad(content[fn[w]]) > 0
        /\ dec[w].err = "parse"
        /\ ~dec[w].readErr
        /\ Len(dec[w].added) >= 1

\* what C9 says of a file that parseFile has returned nil for
OneRecordPerDataLine(d, lines) ==
    /\ Len(d.added) = Cardinality(DataLines(lines))
    /\ \A n \in 1..Len(d.added) :
          RecordMatches(d.added[n],
                        HeaderBefore(lines, Nth(DataLines(lines), n)),
                        Fields(lines[Nth(DataLines(lines), n)]))

\* what C9 says of a Worker that holds a well-formed file: no line of the
\* file is rejected, and once parseFile has returned nil the batch is as above
DecodedInFull(w) ==
    /\ ~dec[w].readErr => dec[w].err # "parse"
    /\ (wpc[w] = "delete" /\ ~dec[w].notfound) =>
          OneRecordPerDataLine(dec[w], content[fn[w]])

\* C9 as stated: for every well-formed file the batch holds one record per
\* data line, in file order, each with the header's names as keys and the
\* i-th token under the i-th name.
C9_WellFormedOneRecordPerLine ==
    \A w \in WorkerIds :
        (fn[w] # <<>> /\ WellFormed(content[fn[w]])) => DecodedInFull(w)

\* C9 amended: the same for the well-formed files whose header directives
\* each name at least one field and no field twice.
C9_DistinctFieldsOneRecordPerLine ==
    \A w \in WorkerIds :
        (/\ fn[w] # <<>>
         /\ WellFormed(content[fn[w]])
         /\ DistinctNonEmptyHeaders(content[fn[w]])) => DecodedInFull(w)

\* parseFile has returned nil for such a file with two data lines
C9_Witness ==
    \E w \in WorkerIds :
        /\ wpc[w] = "delete"
        /\ ~dec[w].notfound
        /\ WellFormed(content[fn[w]])
        /\ DistinctNonEmptyHeaders(content[fn[w]])
        /\ Len(dec[w].added) >= 2

\* C10 as stated: after a not-found fetch no batch exists, nothing was added
\* or flushed, parseFile returned nil and the Worker goes on.
C10_NotFoundNoBatch ==
    \A w \in WorkerIds :
        dec[w].notfound =>
            /\ dec[w].batches = 0
            /\ dec[w].added = <<>>
            /\ ~dec[w].flushed
            /\ dec[w].err = "nil"
            /\ wpc[w] = "delete"

\* C10 amended: after a not-found fetch the batch that was created before
\* the fetch is empty and unflushed, parseFile returned nil and the Worker
\* goes on.
C10_NotFoundEmptyBatch ==
    \A w \in WorkerIds :
        dec[w].notfound =>
            /\ dec[w].batches = 1
            /\ dec[w].added = <<>>
            /\ ~dec[w].flushed
            /\ dec[w].err = "nil"
            /\ wpc[w] = "delete"

\* a Worker has fetched a key that another Worker had deleted
C10_Witness == \E w \in WorkerIds : dec[w].notfound /\ fn[w] \notin bucket

\* C11: the value a metrics response carries is the number of items that
\* have been enqueued and not yet dequeued at the instant of the read, and
\* serving the request changes neither the queue (its contents, its being
\* open or closed) nor the stop flag.
C11_MetricsReportsDepth ==
    [][reported' # reported =>
          /\ reported' = enq - deq
          /\ queue' = queue
          /\ closed' = closed
          /\ stop' = stop]_vars

\* a response that reports two queued items after a Worker has dequeued one
\* and the stop flag has been set
C11_Witness == reported = 2 /\ Len(queue) = 2 /\ deq >= 1 /\ stop

\* the n-th '/'-separated segment of a key that has at least n segments: the
\* characters between the (n-1)-th and the n-th '/', or the end of the key
Segment(k, n) ==
    LET slashes == {i \in 1..Len(k) : k[i] = "/"}
        bounds == {0} \cup slashes \cup {Len(k) + 1}
        from == Nth(bounds, n)
        to == Nth(bounds, n + 1)
    IN  SubSeq(k, from + 1, to - 1)

\* the value the claim gives a derived label
DerivedLabel(name, k) ==
    CASE name = "namespace" -> Segment(k, 1)
      [] name = "cloudfront" -> Segment(k, 2)
      [] name = "cluster" -> opts.ClusterName
      [] name = "index" -> opts.ClusterName \o <<"-">> \o Segment(k, 1)

\* C12: the label set of a batch has the four derived labels (namespace =
\* first key segment, cloudfront = second key segment, cluster = configured
\* cluster name, index = cluster-namespace) and the configured static labels,
\* and a static label replaces the derived label of the same name.
C12_LabelSet ==
    \A w \in WorkerIds :
        dec[w].batches = 1 =>
            LET l == dec[w].labels IN
            /\ DOMAIN l = DynamicLabels \cup DOMAIN opts.Labels
            /\ \A name \in DOMAIN l :
                  l[name] = IF name \in DOMAIN opts.Labels
                            THEN opts.Labels[name]
                            ELSE DerivedLabel(name, fn[w])

\* a batch for the key with the empty first segment, under a configuration
\* whose static labels replace a derived label and add another
C12_Witness ==
    \E w \in WorkerIds :
        /\ dec[w].batches = 1
        /\ fn[w] = KeyS
        /\ "namespace" \in DOMAIN opts.Labels
        /\ dec[w].labels["namespace"] = <<"n">>
        /\ dec[w].labels["index"] = <<"c", "-">>
        /\ dec[w].labels["env"] = <<"p">>

\* the keys of the first n objects of the listing, objects without a key
\* left out
ListedKeys(n) ==
    LET withKey == SelectSeq(SubSeq(listing, 1, n), LAMBDA o : o # <<>>)
    IN  [i \in 1..Len(withKey) |-> withKey[i][1]]

\* a is b with some elements left out, the order kept
RECURSIVE IsSubsequence(_, _)
IsSubsequence(a, b) ==
    IF a = <<>> THEN TRUE
    ELSE IF b = <<>> THEN FALSE
    ELSE IF Head(a) = Head(b) THEN IsSubsequence(Tail(a), Tail(b))
    ELSE IsSubsequence(a, Tail(b))

\* the keys Worker w has dequeued so far, in the order it dequeued them
Handled(w) == delReq[w] \o (IF fn[w] # <<>> THEN <<fn[w]>> ELSE <<>>)

\* no Worker but the first has dequeued anything
SingleWorker == \A w \in WorkerIds \ {1} : fn[w] = <<>> /\ delReq[w] = <<>>

\* C13, states: the keys one Scan invocation has enqueued are keys of its
\* listing, in listing order; and when a single Worker does all the work,
\* the keys it has handled followed by the keys still queued end with the
\* keys of the current invocation in the order they were enqueued (and are
\* exactly those keys while only one page has been listed).
C13_ListingOrder ==
    /\ IsSubsequence(sent, ListedKeys(Len(listing)))
    /\ sent = SelectSeq(tried, LAMBDA k : k \in Range(sent))
    /\ SingleWorker =>
          LET h == Handled(1) \o queue IN
          /\ Len(h) >= Len(sent)
          /\ SubSeq(h, Len(h) - Len(sent) + 1, Len(h)) = sent
          /\ scans <= 1 => h = sent

\* C13, steps: the queue changes only by an enqueue at its tail, of the key
\* of the object Scan is at, or by a dequeue of its head, which the
\* dequeuing Worker then holds.
C13_FifoStep ==
    queue' # queue =>
        \/ /\ scpc = "send"
           /\ queue' = Append(queue, listing[idx][1])
           /\ idx' = idx + 1
        \/ /\ queue # <<>>
           /\ queue' = Tail(queue)
           /\ \E w \in WorkerIds :
                 /\ wpc[w] = "recv"
                 /\ wpc'[w] = "open"
                 /\ fn'[w] = Head(queue)

\* C13: within one Scan invocation keys are enqueued in listing order,
\* Workers dequeue in the order of enqueueing, and a single Worker handles
\* the files of a page in listing order.
C13_FifoOrder == []C13_ListingOrder /\ [][C13_FifoStep]_vars

\* a single Worker has handled the two files of a page in listing order
C13_Witness ==
    /\ SingleWorker
    /\ scans = 1
    /\ sent = <<KeyA, KeyB>>
    /\ delReq[1] = <<KeyA>>
    /\ fn[1] = KeyB
    /\ queue = <<>>

\* C14, states: a Worker whose parseFile call has produced an error has
\* returned.
C14_ErrorMeansReturned ==
    \A w \in WorkerIds : dec[w].err # "nil" => wpc[w] = "failed"

\* C14, steps: the step in which a Worker returns an error leaves the queue,
\* the bucket, the delete requests and the other Workers as they were, and a
\* Worker that has returned an error dequeues nothing, keeps the key it
\* failed on and issues no delete request.
C14_FailStep ==
    \A w \in WorkerIds :
        /\ (wpc[w] # "failed" /\ wpc'[w] = "failed") =>
              /\ queue' = queue
              /\ closed' = closed
              /\ bucket' = bucket
              /\ delReq' = delReq
              /\ deq' = deq
              /\ fn' = fn
              /\ \A v \in WorkerIds \ {w} : wpc'[v] = wpc[v] /\ dec'[v] = dec[v]
        /\ wpc[w] = "failed" =>
              /\ wpc'[w] = "failed"
              /\ fn'[w] = fn[w]
              /\ dec'[w] = dec[w]
              /\ delReq'[w] = delReq[w]

\* C14: on a processing failure the Worker returns the error at once; it
\* dequeues nothing more and neither re-enqueues nor deletes the key, and
\* the queue and the other Workers are left as they were.
C14_FailFast == []C14_ErrorMeansReturned /\ [][C14_FailStep]_vars

\* a Worker has returned an error while the queue holds an item and another
\* Worker is at work on a file
C14_Witness ==
    \E w, v \in WorkerIds :
        /\ wpc[w] = "failed"
        /\ fn[w] \in bucket
        /\ Processing(v)
        /\ queue # <<>>

\* C15: with Stop called from concurrent call sites the stop flag goes from
\* false to true once (it never goes back, and it is set when a call has
\* returned) and the queue is closed at most once.
C15_ConcurrentStopOnce ==
    /\ [](/\ closes <= 1
          /\ panicked # "close of closed channel"
          /\ \A t \in Stoppers : stpc[t] = "done" => stop /\ closed)
    /\ [][stop => stop']_vars

\* Worker w is inside the scanner loop before and after the step
InLoop(w) == wpc[w] = "scan" /\ wpc'[w] = "scan"

\* C16 as stated: while a file is decoded, HeaderFields is empty until a
\* header directive has been seen, and once it is set no later line of the
\* file changes it.
C16_HeaderSetOnce ==
    [][\A w \in WorkerIds :
          InLoop(w) =>
              /\ dec'[w].hdr # <<>> =>
                    \E j \in (1..dec[w].line) \cap DOMAIN content[fn[w]] :
                        IsHeaderLine(content[fn[w]][j])
              /\ dec[w].hdr # <<>> => dec'[w].hdr = dec[w].hdr]_vars

\* C16 amended, states: HeaderFields holds the field names of the latest
\* header directive among the lines read so far, and is empty when there is
\* none.
C16_HeaderIsLatestDirective ==
    \A w \in WorkerIds :
        (wpc[w] = "scan" /\ ~dec[w].readErr) =>
            dec[w].hdr = HeaderBefore(content[fn[w]], dec[w].line)

\* C16 amended, steps: only a line that starts with the header directive
\* changes HeaderFields.
C16_HeaderStep ==
    \A w \in WorkerIds :
        (InLoop(w) /\ dec'[w].hdr # dec[w].hdr) =>
            IsHeaderLine(content[fn[w]][dec[w].line])

\* C16 amended: HeaderFields is empty until a header directive has been
\* seen; every header directive replaces it with the names that line gives,
\* and no other line changes it.
C16_HeaderFollowsDirectives ==
    []C16_HeaderIsLatestDirective /\ [][C16_HeaderStep]_vars

\* a second header directive has replaced the fields of the first, after a
\* record was added under the first
C16_Witness ==
    \E w \in WorkerIds :
        /\ wpc[w] = "scan"
        /\ content[fn[w]] = FileTwoHeaders
        /\ dec[w].line = 4
        /\ dec[w].hdr = <<<<"b">>>>
        /\ Len(dec[w].added) = 1

\* the line the scanner of Worker w is at
LineAt(w) == content[fn[w]][dec[w].line]

\* the step has tokenized a line as a data line: a record joined the batch,
\* or parseDataLine or Batch.Add returned an error
Tokenized(w) ==
    \/ Len(dec'[w].added) > Len(dec[w].added)
    \/ dec'[w].err \in {"parse", "add"}

\* C17: a line is tokenized as a data line only when HeaderFields is not
\* empty and the line does not start with '#'; a line that starts with '#',
\* and any line read while HeaderFields is empty, adds nothing to the batch
\* and makes parseFile return no error (the scanner goes on, unless the read
\* of the body itself fails).
C17_OnlyDataLinesTokenized ==
    [][\A w \in WorkerIds :
          (wpc[w] = "scan" /\ dec[w].line <= Len(content[fn[w]])) =>
              /\ Tokenized(w) =>
                    /\ dec[w].hdr # <<>>
                    /\ ~HasPrefix(LineAt(w), CommentMarker)
              /\ (/\ ~dec[w].readErr
                  /\ dec'[w] # dec[w]
                  /\ HasPrefix(LineAt(w), CommentMarker) \/ dec[w].hdr = <<>>) =>
                    /\ dec'[w].added = dec[w].added
                    /\ dec'[w].err \in {"nil", "scan"}
                    /\ dec'[w].err = "nil" =>
                          /\ wpc'[w] = "scan"
                          /\ dec'[w].readErr \/ dec'[w].line = dec[w].line + 1]_vars

\* a data line placed before the header was skipped, and the data line after
\* the header has joined the batch
C17_Witness ==
    \E w \in WorkerIds :
        /\ wpc[w] = "scan"
        /\ content[fn[w]] = FileEarlyData
        /\ dec[w].line = 4
        /\ Len(dec[w].added) = 1

\* C18: every Scan invocation whose list call has succeeded returns.
C18_ScanReturns == (scpc # "idle") ~> (scpc = "idle")

\* C19: whenever a Worker is about to issue the delete request for an object
\* whose fetch succeeded, the batch has been flushed and holds one line for
\* every line of the object that does not start with '#'.
C19_NoSilentLoss ==
    \A w \in WorkerIds :
        (wpc[w] = "delete" /\ ~dec[w].notfound) =>
            /\ dec[w].flushed
            /\ Len(dec[w].added) = Cardinality(DataLines(content[fn[w]]))

\* C20: deriving the labels from a key never ends the process: the Worker's
\* handling of every key ends in success or in a returned error.
C20_EveryKeyHandled == panicked # "index out of range"

====
